---------------------------- MODULE Spec2Model ----------------------------
(***************************************************************************)
(* A state-machine model of SimpSOM's SOMNet / SOMNode                     *)
(* (src/simpsom/network.py).                                               *)
(*                                                                         *)
(* Numbers.  The program computes in float32/float64.  The model computes  *)
(* in fixed point:                                                         *)
(*   - data values and node weights are integers in units of 1/Centi;      *)
(*   - sigma, learning rate, tau and kernel values are integers in units   *)
(*     of 1/Milli;                                                         *)
(*   - exp and log are evaluated by a series / a table on the bounded      *)
(*     domain the model reaches.                                           *)
(* The fixed-point weights follow the program's floating-point weights to  *)
(* within Accuracy units, and a distance to within Slack.  Where the       *)
(* fixed-point values of two distances, or of a score difference and the   *)
(* tolerance, are closer than that, the order of the program's values is   *)
(* not determined by the model: the comparison may come out either way,    *)
(* and the model has a step for each outcome.  Two nodes that hold the     *)
(* very same float32 weights are the exception: their distances to any     *)
(* vector are the same number in the program as well.                      *)
(* The accuracy is Resolution for the weights the constructor computes and *)
(* for weights trained under a kernel without negative values.  A batch    *)
(* epoch sets a weight to a quotient of sums; under the mexican kernel,    *)
(* whose values have both signs, the sum of kernel values in the divisor   *)
(* can be close to zero, and an error of 1/Milli in a kernel value then    *)
(* moves the quotient by whole units.  Weights trained under that kernel   *)
(* are held to SignedResolution only, and batch training under the mexican *)
(* kernel is explored for ShortEpochs epochs.                              *)
(* Lattice distances are kept exact: four times the squared distance is an *)
(* integer for both topologies.                                            *)
(*                                                                         *)
(* The modules simpsom.hexagons, simpsom.distances and                     *)
(* simpsom.neighborhoods are not part of the sources at hand; their        *)
(* operators are written from the specification text (sections 4.1-4.3).   *)
(***************************************************************************)
EXTENDS Integers, Sequences, FiniteSets, TLC

VARIABLES
    self,        \* the SOMNet object: the attributes __init__ sets
    init,        \* the init argument the constructor was called with
    cpu,         \* what multiprocessing.cpu_count() does on this machine
    attrs,       \* attributes train() adds to the object (name -> value)
    pc,          \* position of the running train() call, or "idle"
    call,        \* arguments of the running / last train() call
    loc,         \* local variables of the running train() call
    last,        \* outcome of the last finished operation
    file,        \* the .npy file written by save(), or NoFile
    saved,       \* the network as it stood when save() was last called
    net2,        \* the SOMNet constructed from load_file, or NoNet
    ncalls,      \* number of train() calls started
    nops         \* number of save / load / find_bmu_ix calls made

vars == <<self, init, cpu, attrs, pc, call, loc, last, file, saved, net2, ncalls, nops>>

---------------------------------------------------------------------------
(* Bounds of the model.                                                    *)

MaxDim == 3
MaxEpochs == 5
MaxCalls == 2
MaxPatience == 2
MaxOps == 2
MaxOpsBeforeTrain == 0
MaxOpsAfterTrain == 1
CoreEpochs == 3
ShortEpochs == 1

---------------------------------------------------------------------------
(* Fixed-point units.                                                      *)

Centi == 100
Milli == 1000

(* The distance, in units of 1/Centi, within which a weight of the model   *)
(* follows the float32 weight of the program: a weight the constructor     *)
(* computed, or one trained under the gaussian or the bubble kernel.       *)
Resolution == 3

(* The same for a weight trained under the mexican kernel.                 *)
SignedResolution == 400

(* Division rounded to the nearest integer, b > 0. *)
RDiv(a, b) == (2 * a + b) \div (2 * b)

Abs(a) == IF a < 0 THEN 0 - a ELSE a

Max2(a, b) == IF a >= b THEN a ELSE b

Min2(a, b) == IF a <= b THEN a ELSE b

(* The same function or sequence, with every value computed once. *)
Eager(f) == f @@ << >>

EagerSeq(s) == s @@ << >>

RECURSIVE SumFrom(_, _)
SumFrom(s, k) == IF k > Len(s) THEN 0 ELSE s[k] + SumFrom(s, k + 1)

SumSeq(s) == LET t == EagerSeq(s) IN SumFrom(t, 1)

RECURSIVE IsqrtBin(_, _, _)
IsqrtBin(n, lo, hi) ==
    IF lo >= hi THEN lo
    ELSE LET mid == (lo + hi + 1) \div 2
         IN  IF mid * mid <= n THEN IsqrtBin(n, mid, hi)
                               ELSE IsqrtBin(n, lo, mid - 1)

(* sqrt on non-negative integers, rounded down (n < 2^30). *)
Isqrt(n) == IsqrtBin(n, 0, 32767)

---------------------------------------------------------------------------
(* math.exp and math.log.                                                  *)

(* Sum of f^k/k!, k = 0..10, for 0 <= f <= 1, in units of 1/10000. *)
RECURSIVE ExpTerms(_, _, _, _)
ExpTerms(f, k, term, acc) ==
    IF k > 10 THEN acc
    ELSE LET t == (term * f) \div (k * 10000)
         IN  ExpTerms(f, k + 1, t, acc + t)

ExpSeries(f) == ExpTerms(f, 1, 10000, 10000)

(* e^-k in units of 1/100000. *)
ENegInt(k) ==
    CASE k = 0 -> 100000 [] k = 1 -> 36788 [] k = 2 -> 13534
      [] k = 3 -> 4979   [] k = 4 -> 1832  [] k = 5 -> 674
      [] k = 6 -> 248    [] k = 7 -> 91    [] k = 8 -> 34
      [] k = 9 -> 12     [] k = 10 -> 5    [] k = 11 -> 2
      [] OTHER -> 0

(* e^k in units of 1/10000, k in 0..2 (larger arguments saturate). *)
EPosInt(k) ==
    CASE k = 0 -> 10000 [] k = 1 -> 27183 [] OTHER -> 73891

(* exp(-x4/10000) in units of 1/Milli, x4 >= 0. *)
ExpNegMilli(x4) ==
    LET k   == x4 \div 10000
        f   == x4 % 10000
        inv == 100000000 \div ExpSeries(f)
    IN  (ENegInt(k) * inv + 500000) \div 1000000

(* exp(x4/10000) in units of 1/Milli, 0 <= x4 < 30000. *)
ExpPosMilli(x4) ==
    LET k == Min2(x4 \div 10000, 2)
        f == x4 % 10000
    IN  ((EPosInt(k) \div 10) * ExpSeries(f) + 5000) \div 10000

(* exp(num/den) in units of 1/Milli, den # 0. *)
ExpMilli(num, den) ==
    LET neg == (num < 0) # (den < 0)
        x4  == (Abs(num) * 10000) \div Abs(den)
    IN  IF neg THEN ExpNegMilli(x4) ELSE ExpPosMilli(x4)

(* log(s/Milli) in units of 1/Milli, for s = max(height, width)/2. *)
LogMilli(s) ==
    CASE s = 500  -> 0 - 693
      [] s = 1000 -> 0
      [] s = 1500 -> 405
      [] s = 2000 -> 693
      [] s = 2500 -> 916
      [] OTHER    -> 1099


---------------------------------------------------------------------------
(* Input sets.                                                             *)

None == << >>

Topologies == {"hexagonal", "rectangular"}

Metrics == {"euclidean", "manhattan"}

(* "linear" stands for any name that is not a recognized kernel. *)
Kernels == {"gaussian", "bubble", "mexican", "linear"}

(* Datasets (rows are samples), values in units of 1/Centi. *)
Data1 == << <<0>>, <<1000>> >>

Data2 == << <<100, 200>>, <<400, 0>> >>

Data3 == << <<400, 0 - 300, 0 - 300>>, <<300, 500, 400>>, <<0 - 500, 500, 100>> >>

DataSets == {Data1, Data2, Data3}

NumFeatures(d) == Len(d[1])

(* The init argument: 'random', or a couple of custom vectors. *)
CustomVecs(D) == << [i \in 1..D |-> 100], [i \in 1..D |-> IF i = 1 THEN 200 ELSE 0] >>

Inits(D) == { [kind |-> "random", vecs |-> None],
              [kind |-> "custom", vecs |-> CustomVecs(D)] }

(* Values random.random() may return, in units of 1/Milli. *)
RandomValues == {0, 500, 999}

ColMin(d) == [i \in 1..NumFeatures(d) |->
                 CHOOSE m \in {d[r][i] : r \in 1..Len(d)} :
                     \A r \in 1..Len(d) : m <= d[r][i]]

ColMax(d) == [i \in 1..NumFeatures(d) |->
                 CHOOSE m \in {d[r][i] : r \in 1..Len(d)} :
                     \A r \in 1..Len(d) : m >= d[r][i]]

---------------------------------------------------------------------------
(* SOMNode.                                                                *)

(* Which source SOMNode.__init__ takes the weights from. *)
SOMNodeSource(wei_bounds, init_vec, wei_array) ==
    IF wei_array # None THEN "wei_array"
    ELSE IF init_vec # None THEN "init_vec"
    ELSE IF wei_bounds # None THEN "wei_bounds"
    ELSE "exit"

(* The weights SOMNode.__init__ gives the node at grid index (x, y); rnd[i] *)
(* is the value random.random() returns for feature i.                     *)
SOMNodeWeights(x, y, num_weights, height, width, wei_bounds, init_vec, wei_array, rnd) ==
    CASE SOMNodeSource(wei_bounds, init_vec, wei_array) = "wei_array" ->
            wei_array
      [] SOMNodeSource(wei_bounds, init_vec, wei_array) = "init_vec" ->
            [i \in 1..Len(init_vec[1]) |->
                RDiv((2 * x - width) * init_vec[1][i], width)
              + RDiv((2 * y - height) * init_vec[2][i], height)]
      [] SOMNodeSource(wei_bounds, init_vec, wei_array) = "wei_bounds" ->
            [i \in 1..num_weights |->
                RDiv(rnd[i] * (wei_bounds[2][i] - wei_bounds[1][i]), Milli)
              + wei_bounds[1][i]]
      [] OTHER -> None

SOMNode(x, y, num_weights, height, width, wei_bounds, init_vec, wei_array, rnd) ==
    [x |-> x, y |-> y,
     weights |-> SOMNodeWeights(x, y, num_weights, height, width,
                                wei_bounds, init_vec, wei_array, rnd)]

(* hexagons.coor_to_hex and the rectangular identity, as twice the x       *)
(* coordinate and the row number (the y coordinate is row*sqrt(3)/2 on the *)
(* hexagonal grid and the row itself on the rectangular one).              *)
PosX2(topology, node) ==
    IF topology = "hexagonal" THEN 2 * node.x + (node.y % 2) ELSE 2 * node.x

(* Four times the squared Euclidean distance for a horizontal offset of    *)
(* dx2/2 and a vertical offset of dy rows.                                 *)
Sq4(topology, dx2, dy) ==
    IF topology = "hexagonal" THEN dx2 * dx2 + 3 * dy * dy
                              ELSE dx2 * dx2 + 4 * dy * dy

PlainDist4(topology, a, b) ==
    Sq4(topology, PosX2(topology, a) - PosX2(topology, b), a.y - b.y)

MinOfSet(S) == CHOOSE m \in S : \A e \in S : m <= e

(* A periodic distance that wraps to the right and to the bottom only. *)
get_node_distance_one_way(net, a, b) ==
    LET dx2 == PosX2(net.topology, a) - PosX2(net.topology, b)
        dy  == a.y - b.y
        w2  == 2 * net.net_width
        h   == net.net_height
        off == IF net.net_height % 2 = 0 THEN 0 ELSE 1
    IN  IF net.PBC = TRUE /\ net.topology = "hexagonal"
        THEN MinOfSet({ Sq4("hexagonal", dx2, dy),
                        Sq4("hexagonal", dx2 + w2, dy),
                        Sq4("hexagonal", dx2 + off, dy + h),
                        Sq4("hexagonal", dx2 + w2 + off, dy + h) })
        ELSE Sq4(net.topology, dx2, dy)

(* A periodic distance that leaves out the unwrapped candidate. *)
get_node_distance_wrapped_only(net, a, b) ==
    LET dx2 == PosX2(net.topology, a) - PosX2(net.topology, b)
        dy  == a.y - b.y
        w2  == 2 * net.net_width
        h   == net.net_height
        off == IF net.net_height % 2 = 0 THEN 0 ELSE 1
    IN  IF net.PBC = TRUE /\ net.topology = "hexagonal"
        THEN MinOfSet({ Sq4("hexagonal", dx2 + w2, dy),
                        Sq4("hexagonal", dx2 + off, dy + h),
                        Sq4("hexagonal", dx2 - w2, dy),
                        Sq4("hexagonal", dx2 - off, dy - h),
                        Sq4("hexagonal", dx2 + w2 + off, dy + h),
                        Sq4("hexagonal", dx2 - w2 + off, dy + h),
                        Sq4("hexagonal", dx2 + w2 - off, dy - h),
                        Sq4("hexagonal", dx2 - w2 - off, dy - h) })
        ELSE Sq4(net.topology, dx2, dy)

(* SOMNode.get_node_distance: four times the square of the value returned. *)
get_node_distance(net, a, b) ==
    LET dx2 == PosX2(net.topology, a) - PosX2(net.topology, b)
        dy  == a.y - b.y
        w2  == 2 * net.net_width
        h   == net.net_height
        off == IF net.net_height % 2 = 0 THEN 0 ELSE 1
    IN  IF net.PBC = TRUE /\ net.topology = "hexagonal"
        THEN MinOfSet({ Sq4("hexagonal", dx2, dy),
                        Sq4("hexagonal", dx2 + w2, dy),
                        Sq4("hexagonal", dx2 + off, dy + h),
                        Sq4("hexagonal", dx2 - w2, dy),
                        Sq4("hexagonal", dx2 - off, dy - h),
                        Sq4("hexagonal", dx2 + w2 + off, dy + h),
                        Sq4("hexagonal", dx2 - w2 + off, dy + h),
                        Sq4("hexagonal", dx2 + w2 - off, dy - h),
                        Sq4("hexagonal", dx2 - w2 - off, dy - h) })
        ELSE Sq4(net.topology, dx2, dy)

---------------------------------------------------------------------------
(* SOMNet.__init__.                                                        *)

NoFile == [exists |-> FALSE, rows |-> << >>]

NoNet == [loaded |-> FALSE]

(* init_vec as __init__ leaves it before the nodes are made (PCA is not    *)
(* modelled).                                                              *)
InitVec(ini, d) ==
    IF ini.kind = "random" THEN << ColMin(d), ColMax(d) >> ELSE ini.vecs

(* int() of a file value. *)
ToInt(v) == IF v >= 0 THEN v \div Centi ELSE 0 - ((0 - v) \div Centi)

(* bool() of a file value. *)
ToBool(v) == v # 0

(* The node list __init__ builds: x over the width, y over the height.     *)
(* wei_bounds is init_bounds, which is None: the nodes draw no random      *)
(* number.                                                                 *)
NodeList(height, width, d, init_vec, wei_array) ==
    [k \in 1..(width * height) |->
        LET x == (k - 1) \div height
            y == (k - 1) % height
            this_wei == IF wei_array # None THEN wei_array[k + 1] ELSE None
        IN  SOMNode(x, y, NumFeatures(d), height, width, None, init_vec, this_wei, None)]

SOMNet(net_height, net_width, d, load_file, metric, topology, neighborhood_fun, ini, pbc) ==
    LET loading == load_file.exists
        wei    == IF loading THEN load_file.rows ELSE None
        h      == IF loading THEN ToInt(wei[1][1]) ELSE net_height
        w      == IF loading THEN ToInt(wei[1][2]) ELSE net_width
        p      == IF loading THEN ToBool(wei[1][3]) ELSE pbc
        ivec   == IF loading THEN None ELSE InitVec(ini, d)
    IN  [net_height |-> h, net_width |-> w, PBC |-> p, topology |-> topology,
         metric |-> metric, neighborhood_fun |-> neighborhood_fun, data |-> d,
         convergence |-> << >>, convergence_type |-> "list",
         node_list |-> NodeList(h, w, d, ivec, wei)]

---------------------------------------------------------------------------
(* SOMNet.save.                                                            *)

BoolInt(b) == IF b THEN 1 ELSE 0

(* The weight vectors of the nodes, in list order. *)
WeightRows(net) == EagerSeq([k \in 1..Len(net.node_list) |-> net.node_list[k].weights])

(* save() raises IndexError when the zero row has fewer than 3 columns. *)
SaveFails(net) == Len(net.node_list[1].weights) < 3

SaveRows(net) ==
    LET D == Len(net.node_list[1].weights)
        row0 == [i \in 1..D |->
                    CASE i = 1 -> net.net_height * Centi
                      [] i = 2 -> net.net_width * Centi
                      [] i = 3 -> BoolInt(net.PBC) * Centi
                      [] OTHER -> 0]
    IN  <<EagerSeq(row0)>> \o WeightRows(net)

---------------------------------------------------------------------------
(* distances.pairdist and SOMNet.find_bmu_ix.                              *)

(* The distance between two vectors as an exact integer: the sum of the     *)
(* absolute differences (manhattan), or the sum of the squared differences *)
(* (euclidean: the square of the distance).  The order of two distances is *)
(* the order of their exact values.                                        *)
DistExact(metric, u, v) ==
    IF metric = "manhattan"
    THEN SumSeq([i \in 1..Len(u) |-> Abs(u[i] - v[i])])
    ELSE SumSeq([i \in 1..Len(u) |-> (u[i] - v[i]) * (u[i] - v[i])])

(* The distance an exact value stands for, in units of 1/Centi. *)
Root(metric, e) == IF metric = "manhattan" THEN e ELSE Isqrt(e)

(* Distance between two vectors under the metric, in units of 1/Centi. *)
Dist(metric, u, v) == Root(metric, DistExact(metric, u, v))

(* An argmin that returns the last of several minima. *)
ArgMinLast(ds) ==
    (CHOOSE k \in 1..Len(ds) :
        /\ \A j \in 1..Len(ds) : ds[k] <= ds[j]
        /\ \A j \in (k + 1)..Len(ds) : ds[j] > ds[k]) - 1

(* numpy argmin over a row of distances: 0-based index of the first minimum. *)
ArgMin(ds) ==
    (CHOOSE k \in 1..Len(ds) :
        /\ \A j \in 1..Len(ds) : ds[k] <= ds[j]
        /\ \A j \in 1..(k - 1) : ds[j] > ds[k]) - 1

(* The 1-based indices of the nodes that may be at the minimum of the      *)
(* program's row of distances: those the model holds within slack of the   *)
(* least of its exact values ds.                                           *)
Nearest(ds, metric, slack) ==
    LET least == MinOfSet({ds[j] : j \in 1..Len(ds)})
    IN  {k \in 1..Len(ds) : Root(metric, ds[k]) - Root(metric, least) <= slack}

(* dist.pairdist of one vector against the weights of all nodes, as exact  *)
(* values.                                                                 *)
pairdist(net, vec) ==
    EagerSeq([k \in 1..Len(net.node_list) |->
                 DistExact(net.metric, vec, net.node_list[k].weights)])

(* find_bmu_ix for one vector: argmin over the row of distances dists the   *)
(* program computed.                                                       *)
find_bmu_ix(dists) == ArgMin(dists)


---------------------------------------------------------------------------
(* neighborhoods: kernel values in units of 1/Milli; sigma in 1/Milli.     *)

(* sigma^2 in units of 1/10000. *)
Sigma2(sigma) == (sigma * sigma) \div 100

(* exp(-d2/(2 sigma^2)) *)
GaussOf(d2, sigma) == ExpNegMilli((d2 * 50000000) \div Sigma2(sigma))

gaussian(wx, wy, x, y, sigma) ==
    RDiv(GaussOf((x - wx) * (x - wx), sigma) * GaussOf((y - wy) * (y - wy), sigma), Milli)

bubble(wx, wy, x, y, sigma) ==
    IF Abs(x - wx) * Milli <= sigma /\ Abs(y - wy) * Milli <= sigma THEN Milli ELSE 0

mexican_hat(wx, wy, x, y, sigma) ==
    LET d2 == (x - wx) * (x - wx) + (y - wy) * (y - wy)
    IN  RDiv((Sigma2(sigma) - d2 * 10000) * GaussOf(d2, sigma), Sigma2(sigma))

(* The kernel train() prepares for the network's neighborhood_fun. *)
KernelOf(neighborhood_fun) ==
    IF neighborhood_fun = "bubble" THEN "bubble"
    ELSE IF neighborhood_fun = "mexican" THEN "mexican_hat"
    ELSE "gaussian"

neighborhood(kernel, wx, wy, x, y, sigma) ==
    CASE kernel = "bubble"      -> bubble(wx, wy, x, y, sigma)
      [] kernel = "mexican_hat" -> mexican_hat(wx, wy, x, y, sigma)
      [] OTHER                  -> gaussian(wx, wy, x, y, sigma)

---------------------------------------------------------------------------
(* Attributes train() sets on the object.                                  *)

NoAttrs == [n \in {} |-> 0]

SetAttr(a, name, v) ==
    Eager([n \in (DOMAIN a) \cup {name} |-> IF n = name THEN v ELSE a[n]])

(* start_sigma = max(net_height, net_width)/2 *)
StartSigma(net) == Max2(net.net_height, net.net_width) * (Milli \div 2)

(* epochs as train() resolves it. *)
Epochs(net, epochs) == IF epochs = 0 - 1 THEN Len(net.data) * 10 ELSE epochs

(* Division of integers rounded to the nearest, any signs, b # 0. *)
SDiv(a, b) == IF b > 0 THEN RDiv(a, b) ELSE RDiv(0 - a, 0 - b)

(* tau = epochs/log(start_sigma) *)
Tau(epochs, start_sigma) == SDiv(epochs * Milli * Milli, LogMilli(start_sigma))

(* update_sigma: start_sigma * exp(-n_iter/tau) *)
update_sigma(a, n_iter) ==
    RDiv(a["start_sigma"] * ExpMilli(0 - n_iter * Milli, a["tau"]), Milli)

(* update_learning_rate: start_learning_rate * exp(n_iter/epochs) *)
update_learning_rate(a, n_iter) ==
    RDiv(a["start_learning_rate"] * ExpMilli(n_iter, a["epochs"]), Milli)

(* What multiprocessing.cpu_count() does on the machine: it returns the    *)
(* number of cores, or raises.                                             *)
CpuCounts ==
    {[raises |-> TRUE, count |-> 0], [raises |-> FALSE, count |-> 4]}

(* __get_n_parallel on the CPU: cpu_count()*500, and 0 when it raises. *)
GetNParallel(c) == IF c.raises THEN 0 ELSE c.count * 500

NParallel(net, batch_size, c) ==
    IF batch_size = 0 - 1 \/ batch_size > Len(net.data)
    THEN GetNParallel(c)
    ELSE batch_size

---------------------------------------------------------------------------
(* Online training.                                                        *)

(* random.sample(dps, k): the sequences of k distinct sample indices. *)
Samples(N, k) ==
    {s \in [1..k -> 0..(N - 1)] : \A i, j \in 1..k : i # j => s[i] # s[j]}

RECURSIVE MoreSamples(_, _)
MoreSamples(N, epcs) ==
    IF epcs <= 0 THEN {<< >>}
    ELSE {a \o b : a \in Samples(N, N), b \in MoreSamples(N, epcs - N)}

(* A generation that never samples a second time. *)
datapoint_random_generation_once(N, epochs) == Samples(N, Min2(N, epochs))

(* __datapoint_random_generation: the queues it may return. *)
datapoint_random_generation(N, epochs) ==
    IF epochs <= N THEN Samples(N, epochs)
    ELSE {a \o b : a \in Samples(N, N), b \in MoreSamples(N, epochs - N)}

(* SOMNode.update_weights for one node. *)
update_weights(net, node, input_vec, sigma, learning_rate, bmu) ==
    LET d4    == get_node_distance(net, node, bmu)
        gauss == ExpNegMilli((d4 * 12500000) \div Sigma2(sigma))
    IN  [node EXCEPT !.weights =
            EagerSeq([i \in 1..Len(node.weights) |->
                node.weights[i]
                  - RDiv(gauss * learning_rate * (node.weights[i] - input_vec[i]),
                         Milli * Milli)])]

---------------------------------------------------------------------------
(* Batch training.                                                         *)

(* reshape(net_width, net_height, D) of the rows, and back. *)
Reshape(rows, width, height) ==
    Eager([x \in 0..(width - 1) |->
              Eager([y \in 0..(height - 1) |-> rows[x * height + y + 1]])])

(* A reshape that reads the matrix row by row of the grid (y first). *)
FlattenRowMajor(m, width, height) ==
    EagerSeq([k \in 1..(width * height) |-> m[(k - 1) % width][(k - 1) \div width]])

Flatten(m, width, height) ==
    EagerSeq([k \in 1..(width * height) |-> m[(k - 1) \div height][(k - 1) % height]])

Zeros3(width, height, D) ==
    Eager([x \in 0..(width - 1) |->
              Eager([y \in 0..(height - 1) |-> EagerSeq([i \in 1..D |-> 0])])])

Zeros2(width, height) ==
    Eager([x \in 0..(width - 1) |-> Eager([y \in 0..(height - 1) |-> 0])])

(* distances.batchpairdist: one row of distances (as exact values) per     *)
(* sample of the chunk.                                                    *)
batchpairdist(batchdata, all_weights, metric, width, height) ==
    LET rows == Flatten(all_weights, width, height)
    IN  EagerSeq([i \in 1..Len(batchdata) |->
            EagerSeq([k \in 1..(width * height) |->
                DistExact(metric, batchdata[i], rows[k])])])

(* unravel_index over (net_width, net_height). *)
Unravel(k, height) == << k \div height, k % height >>

(* The rows start..end-1 of the data (0-based, end exclusive). *)
Chunk(d, start, end) == SubSeq(d, start + 1, end)

ChunkEnd(d, start, n_parallel) == Min2(start + n_parallel, Len(d))

(* g_gpu: kernel value times learning rate, per grid cell and sample. *)
GGpu(kernel, wins, width, height, sigma, learning_rate) ==
    Eager([x \in 0..(width - 1) |-> Eager([y \in 0..(height - 1) |->
        EagerSeq([i \in 1..Len(wins) |->
            neighborhood(kernel, wins[i][1], wins[i][2], x, y, sigma) * learning_rate])])])

(* An update that clears the weights of a node with a zero denominator. *)
NewWeightsCleared(numerator, denominator, all_weights, width, height) ==
    Eager([x \in 0..(width - 1) |-> Eager([y \in 0..(height - 1) |->
        EagerSeq([i \in 1..Len(all_weights[x][y]) |->
            IF denominator[x][y] # 0
            THEN SDiv(numerator[x][y][i], denominator[x][y])
            ELSE 0])])])

(* An update that adds the quotient to the old weights. *)
NewWeightsAdded(numerator, denominator, all_weights, width, height) ==
    Eager([x \in 0..(width - 1) |-> Eager([y \in 0..(height - 1) |->
        IF denominator[x][y] # 0
        THEN EagerSeq([i \in 1..Len(all_weights[x][y]) |->
                 all_weights[x][y][i] + SDiv(numerator[x][y][i], denominator[x][y])])
        ELSE all_weights[x][y]])])

(* new_weights = where(denominator != 0, numerator/denominator, all_weights) *)
NewWeights(numerator, denominator, all_weights, width, height) ==
    Eager([x \in 0..(width - 1) |-> Eager([y \in 0..(height - 1) |->
        IF denominator[x][y] # 0
        THEN EagerSeq([i \in 1..Len(all_weights[x][y]) |->
                 SDiv(numerator[x][y][i], denominator[x][y])])
        ELSE all_weights[x][y]])])

(* mapdiff: pairdist(new, old).mean() over the whole distance matrix. *)
MapDiff(new_weights, all_weights, metric, width, height) ==
    LET nw == Flatten(new_weights, width, height)
        ow == Flatten(all_weights, width, height)
        M  == width * height
    IN  RDiv(SumSeq([a \in 1..M |-> SumSeq([b \in 1..M |-> Dist(metric, nw[a], ow[b])])]),
             M * M)

(* bmudiff: min(dists, axis=1).mean() for the last chunk (dists in half    *)
(* units).                                                                 *)
BmuDiff(dists, metric) ==
    RDiv(SumSeq([i \in 1..Len(dists) |->
                    Root(metric,
                         MinOfSet({dists[i][k] : k \in 1..Len(dists[i])}) \div 2)]),
         Len(dists))


---------------------------------------------------------------------------
(* The state after construction.                                           *)

AllConfigs ==
    [net_height : 1..MaxDim, net_width : 1..MaxDim, topology : Topologies,
     PBC : BOOLEAN, data : DataSets, metric : Metrics,
     neighborhood_fun : Kernels, init : {"random", "custom"}]

(* Two constructor calls the others are varied from: a 3 x 2 map of three  *)
(* features, and the 2 x 2 map of one feature.                             *)
BaseConfig ==
    [net_height |-> 3, net_width |-> 2, topology |-> "rectangular", PBC |-> FALSE,
     data |-> Data3,
     metric |-> "euclidean", neighborhood_fun |-> "gaussian", init |-> "random"]

SmallConfig ==
    [net_height |-> 2, net_width |-> 2, topology |-> "rectangular", PBC |-> FALSE,
     data |-> Data1,
     metric |-> "euclidean", neighborhood_fun |-> "gaussian", init |-> "random"]

(* The map of a single node. *)
TinyConfig ==
    [net_height |-> 1, net_width |-> 1, topology |-> "rectangular", PBC |-> FALSE,
     data |-> Data3,
     metric |-> "euclidean", neighborhood_fun |-> "gaussian", init |-> "random"]

(* The 3 x 2 map under the bubble kernel on two samples of two features,   *)
(* which share their best matching unit.                                   *)
BubbleConfig ==
    [net_height |-> 3, net_width |-> 2, topology |-> "rectangular", PBC |-> FALSE,
     data |-> Data2,
     metric |-> "euclidean", neighborhood_fun |-> "bubble", init |-> "random"]

Differ(c, d) == Cardinality({f \in DOMAIN c : c[f] # d[f]})

(* The constructor calls of the model: at most one argument away from one  *)
(* of the two.                                                             *)
Configs ==
    {c \in AllConfigs : Differ(c, BaseConfig) <= 1 \/ Differ(c, SmallConfig) <= 1}

(* The constructor calls the training runs are explored in depth on. *)
TrainConfigs ==
    {c \in AllConfigs :
        \/ c = SmallConfig
        \/ c = TinyConfig
        \/ c = BubbleConfig
        \/ [c EXCEPT !.neighborhood_fun = "gaussian"] = BaseConfig}

InitOf(c) ==
    CHOOSE i \in Inits(NumFeatures(c.data)) : i.kind = c.init

---------------------------------------------------------------------------
(* The float32 values of weights and distances.                            *)

(* The rows of weights __init__ computes for a network made with init. *)
Built(net, ini_kind) ==
    WeightRows(SOMNet(net.net_height, net.net_width, net.data, NoFile, net.metric,
                      net.topology, net.neighborhood_fun,
                      InitOf([init |-> ini_kind, data |-> net.data]), net.PBC))

(* The program computes the same float32 distance from vec to the nodes   *)
(* at list indices j and k when SOMNode.__init__ gave them their weights:  *)
(* in every feature, each of the two products of the weight's expression   *)
(* has the same factors at both nodes, or a zero one, so that the weights  *)
(* are the same float32 number; or the products are each other's negative  *)
(* and vec is zero there, so that the weights are, and differ from vec by  *)
(* the same amount.                                                        *)
SameDistance(net, ini_kind, vec, j, k) ==
    LET ivec == InitVec(InitOf([init |-> ini_kind, data |-> net.data]), net.data)
        a    == net.node_list[j]
        b    == net.node_list[k]
    IN  \A i \in 1..NumFeatures(net.data) :
            \/ /\ (a.x - b.x) * ivec[1][i] = 0
               /\ (a.y - b.y) * ivec[2][i] = 0
            \/ /\ vec[i] = 0
               /\ (a.x + b.x - net.net_width) * ivec[1][i] = 0
               /\ (a.y + b.y - net.net_height) * ivec[2][i] = 0

(* For every node, the nodes whose float32 distance from vec is the very   *)
(* same number when the weights of the network are rows: the nodes of      *)
(* SameDistance, while the weights are still the constructor's.  Weights   *)
(* that training has set are not known to be the same float32 numbers in   *)
(* any two nodes.                                                          *)
Twins(net, ini_kind, rows, vec) ==
    [k \in 1..Len(net.node_list) |->
        IF rows = Built(net, ini_kind)
        THEN {j \in 1..Len(net.node_list) : SameDistance(net, ini_kind, vec, j, k)}
        ELSE {k}]

(* The distance within which the weights rows of the model follow the      *)
(* float32 weights of the program.                                         *)
Accuracy(net, ini_kind, rows) ==
    IF net.neighborhood_fun = "mexican" /\ rows # Built(net, ini_kind)
    THEN SignedResolution
    ELSE Resolution

(* How far apart the model's values of two distances may be while the      *)
(* program's values are in the other order: each of the D weights of       *)
(* either node is off by up to the accuracy.                               *)
Slack(net, ini_kind, rows) ==
    2 * NumFeatures(net.data) * Accuracy(net, ini_kind, rows)

(* A row of float32 distances in which the node c is at the minimum, in    *)
(* half units of the model's exact values ds: the nodes the model holds    *)
(* farther than c keep their value, the twins of c have the value of c,    *)
(* and any other node is above c by less than the model resolves.          *)
FloatRow(ds, twins, c) ==
    EagerSeq([k \in 1..Len(ds) |->
                 IF ds[k] > ds[c] THEN 2 * ds[k]
                 ELSE IF k \in twins[c] THEN 2 * ds[c]
                 ELSE 2 * ds[c] + 1])

(* The rows dist.pairdist may return for one vector, the model's exact     *)
(* distances being ds: one row for every node the model holds within Slack *)
(* of the least distance.                                                  *)
FloatRows(net, ini_kind, rows, vec, ds) ==
    LET twins == Twins(net, ini_kind, rows, vec)
    IN  {FloatRow(ds, twins, c) :
            c \in Nearest(ds, net.metric, Slack(net, ini_kind, rows))}

(* The matrices dist.batchpairdist may return for the vectors of a mini    *)
(* batch: one of FloatRows for every vector.                               *)
FloatRowsOfChunk(net, ini_kind, rows, batchdata, exact) ==
    LET twins == [i \in 1..Len(exact) |-> Twins(net, ini_kind, rows, batchdata[i])]
        slack == Slack(net, ini_kind, rows)
        near  == [i \in 1..Len(exact) |-> Nearest(exact[i], net.metric, slack)]
    IN  {EagerSeq([i \in 1..Len(exact) |-> FloatRow(exact[i], twins[i], c[i])]) :
            c \in {f \in [1..Len(exact) -> 1..Len(exact[1])] :
                      \A i \in 1..Len(exact) : f[i] \in near[i]}}

NoCall ==
    [train_algo |-> "none", epochs |-> 0, start_learning_rate |-> 0,
     early_stop |-> "None", early_stop_patience |-> 0,
     early_stop_tolerance |-> 0, batch_size |-> 0]

NoLoc ==
    [n_iter |-> 0, datapoints |-> << >>, all_weights |-> << >>,
     early_stop_counter |-> 0, numerator |-> << >>, denominator |-> << >>,
     kernel |-> "none", n_parallel |-> 0, start |-> 0, dists |-> << >>,
     wins |-> << >>, coef |-> << >>, trace |-> << >>, pre |-> << >>,
     drawn |-> << >>]

Snapshot(net, a) ==
    [attrs |-> a, weights |-> WeightRows(net), convergence |-> net.convergence]

InitWith(C) ==
    \E c \in C :
        /\ self = SOMNet(c.net_height, c.net_width, c.data, NoFile, c.metric,
                         c.topology, c.neighborhood_fun, InitOf(c), c.PBC)
        /\ init = c.init
        /\ cpu \in CpuCounts
        /\ attrs = NoAttrs
        /\ pc = "idle"
        /\ call = NoCall
        /\ loc = NoLoc
        /\ last = [op |-> "__init__", err |-> "ok"]
        /\ file = NoFile
        /\ saved = NoNet
        /\ net2 = NoNet
        /\ ncalls = 0
        /\ nops = 0

---------------------------------------------------------------------------
(* train(): the lines before the algorithm is chosen.                      *)

(* Attributes after start_sigma, start_learning_rate and epochs are set. *)
Prelude(a) ==
    SetAttr(SetAttr(SetAttr(attrs, "start_sigma", StartSigma(self)),
                    "start_learning_rate", a.start_learning_rate),
            "epochs", Epochs(self, a.epochs))

(* Attributes after tau is set. *)
PreludeTau(a) ==
    SetAttr(Prelude(a), "tau", Tau(Epochs(self, a.epochs), StartSigma(self)))

(* The train() calls explored in sequences of several calls on the same    *)
(* object.                                                                 *)
RepeatArgs ==
    [train_algo : {"batch"}, epochs : {CoreEpochs, MaxEpochs},
     start_learning_rate : {10}, early_stop : {"mapdiff"},
     early_stop_patience : {1}, early_stop_tolerance : {20},
     batch_size : {0 - 1}]

(* The batch calls explored on a network with the mexican kernel.          *)
ShortArgs ==
    [train_algo : {"batch"}, epochs : {ShortEpochs},
     start_learning_rate : {10}, early_stop : {"None", "mapdiff", "bmudiff"},
     early_stop_patience : {1}, early_stop_tolerance : {20},
     batch_size : {0 - 1, 1}]

CanCall(a) ==
    /\ pc = "idle"
    /\ ncalls < MaxCalls
    /\ ncalls > 0 => (a \in RepeatArgs /\ call \in RepeatArgs)
    /\ nops <= MaxOpsBeforeTrain
    /\ Epochs(self, a.epochs) <= MaxEpochs
    /\ self.neighborhood_fun = "bubble" => Epochs(self, a.epochs) <= CoreEpochs
    /\ self.neighborhood_fun = "mexican" => Epochs(self, a.epochs) <= ShortEpochs
    /\ a \in ShortArgs => self.neighborhood_fun = "mexican"

(* log(start_sigma) is 0: the division for tau raises ZeroDivisionError. *)
TrainZeroDivision(A) ==
    \E a \in A :
        /\ CanCall(a)
        /\ LogMilli(StartSigma(self)) = 0
        /\ attrs' = Prelude(a)
        /\ call' = a
        /\ loc' = [NoLoc EXCEPT !.pre = Snapshot(self, attrs)]
        /\ last' = [op |-> "train", err |-> "ZeroDivisionError"]
        /\ ncalls' = ncalls + 1
        /\ UNCHANGED <<self, init, cpu, pc, file, saved, net2, nops>>

(* Neither 'online' nor 'batch': sys.exit at the end of the if chain. *)
TrainUnknownAlgo(A) ==
    \E a \in A :
        /\ CanCall(a)
        /\ LogMilli(StartSigma(self)) # 0
        /\ a.train_algo \notin {"online", "batch"}
        /\ attrs' = PreludeTau(a)
        /\ call' = a
        /\ loc' = [NoLoc EXCEPT !.pre = Snapshot(self, attrs),
                                 !.n_parallel = NParallel(self, a.batch_size, cpu)]
        /\ last' = [op |-> "train", err |-> "SystemExit"]
        /\ ncalls' = ncalls + 1
        /\ UNCHANGED <<self, init, cpu, pc, file, saved, net2, nops>>

---------------------------------------------------------------------------
(* train(train_algo='online').                                             *)

TrainOnlineBegin(A) ==
    \E a \in A :
        /\ CanCall(a)
        /\ LogMilli(StartSigma(self)) # 0
        /\ a.train_algo = "online"
        /\ \E dp \in datapoint_random_generation(Len(self.data), Epochs(self, a.epochs)) :
              loc' = [NoLoc EXCEPT !.pre = Snapshot(self, attrs),
                                    !.n_parallel = NParallel(self, a.batch_size, cpu),
                                    !.datapoints = dp]
        /\ attrs' = PreludeTau(a)
        /\ call' = a
        /\ pc' = "online"
        /\ last' = [op |-> "train", err |-> "running"]
        /\ ncalls' = ncalls + 1
        /\ UNCHANGED <<self, init, cpu, file, saved, net2, nops>>

(* One pass of the online loop. *)
OnlineEpoch ==
    /\ pc = "online"
    /\ loc.n_iter < attrs["epochs"]
    /\ LET sigma  == update_sigma(attrs, loc.n_iter)
           lr     == update_learning_rate(attrs, loc.n_iter)
           dps    == loc.datapoints
           dp     == dps[Len(dps)]
           vec    == self.data[dp + 1]
       IN  /\ attrs' = SetAttr(SetAttr(attrs, "sigma", sigma), "learning_rate", lr)
           /\ \E dists \in FloatRows(self, init, WeightRows(self), vec,
                                    pairdist(self, vec)) :
                 LET bmu == self.node_list[find_bmu_ix(dists) + 1]
                 IN  /\ self' = [self EXCEPT !.node_list =
                          EagerSeq([k \in 1..Len(self.node_list) |->
                              update_weights(self, self.node_list[k], vec, sigma, lr, bmu)])]
                     /\ loc' = [loc EXCEPT
                            !.n_iter = loc.n_iter + 1,
                            !.datapoints = SubSeq(dps, 1, Len(dps) - 1),
                            !.drawn = Append(loc.drawn, dp)]
    /\ UNCHANGED <<init, cpu, pc, call, last, file, saved, net2, ncalls, nops>>

OnlineDone ==
    /\ pc = "online"
    /\ loc.n_iter = attrs["epochs"]
    /\ pc' = "idle"
    /\ last' = [op |-> "train", err |-> "ok"]
    /\ UNCHANGED <<self, init, cpu, attrs, call, loc, file, saved, net2, ncalls, nops>>


---------------------------------------------------------------------------
(* train(train_algo='batch').                                              *)

TrainBatchBegin(A) ==
    \E a \in A :
        /\ CanCall(a)
        /\ LogMilli(StartSigma(self)) # 0
        /\ a.train_algo = "batch"
        /\ loc' = [NoLoc EXCEPT
                      !.pre = Snapshot(self, attrs),
                      !.n_parallel = NParallel(self, a.batch_size, cpu),
                      !.all_weights = Reshape(WeightRows(self), self.net_width, self.net_height),
                      !.early_stop_counter = 0,
                      !.numerator = Zeros3(self.net_width, self.net_height, NumFeatures(self.data)),
                      !.denominator = Zeros2(self.net_width, self.net_height),
                      !.kernel = KernelOf(self.neighborhood_fun)]
        /\ attrs' = PreludeTau(a)
        /\ call' = a
        /\ pc' = "batch"
        /\ last' = [op |-> "train", err |-> "running"]
        /\ ncalls' = ncalls + 1
        /\ UNCHANGED <<self, init, cpu, file, saved, net2, nops>>

(* "Store final weights in the nodes objects": row k goes to node k. *)
StoreWeights(net, all_weights) ==
    LET rows == Flatten(all_weights, net.net_width, net.net_height)
    IN  [net EXCEPT !.node_list =
            EagerSeq([k \in 1..Len(net.node_list) |->
                [net.node_list[k] EXCEPT !.weights = rows[k]]])]

(* The early stop check at the top of the loop body: break. *)
BatchBreak ==
    /\ pc = "batch"
    /\ loc.n_iter < attrs["epochs"]
    /\ loc.early_stop_counter = call.early_stop_patience
    /\ self' = StoreWeights(self, loc.all_weights)
    /\ pc' = "idle"
    /\ last' = [op |-> "train", err |-> "ok"]
    /\ UNCHANGED <<init, cpu, attrs, call, loc, file, saved, net2, ncalls, nops>>

(* The loop has run all its epochs. *)
BatchDone ==
    /\ pc = "batch"
    /\ loc.n_iter = attrs["epochs"]
    /\ self' = StoreWeights(self, loc.all_weights)
    /\ pc' = "idle"
    /\ last' = [op |-> "train", err |-> "ok"]
    /\ UNCHANGED <<init, cpu, attrs, call, loc, file, saved, net2, ncalls, nops>>

(* An epoch starts: sigma, learning rate, cleared accumulators. *)
BatchEpochBegin ==
    /\ pc = "batch"
    /\ loc.n_iter < attrs["epochs"]
    /\ loc.early_stop_counter # call.early_stop_patience
    /\ attrs' = SetAttr(SetAttr(attrs, "sigma", update_sigma(attrs, loc.n_iter)),
                        "learning_rate", update_learning_rate(attrs, loc.n_iter))
    /\ loc' = [loc EXCEPT
                  !.numerator = Zeros3(self.net_width, self.net_height, NumFeatures(self.data)),
                  !.denominator = Zeros2(self.net_width, self.net_height),
                  !.coef = Zeros3(self.net_width, self.net_height, Len(self.data)),
                  !.start = 0]
    /\ pc' = "chunk"
    /\ UNCHANGED <<self, init, cpu, call, last, file, saved, net2, ncalls, nops>>

(* _n_parallel is 0: range(0, len(self.data), 0) raises ValueError. *)
BatchRangeError ==
    /\ pc = "chunk"
    /\ loc.n_parallel = 0
    /\ pc' = "idle"
    /\ last' = [op |-> "train", err |-> "ValueError"]
    /\ UNCHANGED <<self, init, cpu, attrs, call, loc, file, saved, net2, ncalls, nops>>

(* One mini batch: BMUs, kernel, accumulation.  coef keeps, per grid cell,  *)
(* the kernel value each sample of the epoch entered the sums with.        *)
BatchChunk ==
    /\ pc = "chunk"
    /\ loc.n_parallel # 0
    /\ \E dists \in FloatRowsOfChunk(self, init,
                   Flatten(loc.all_weights, self.net_width, self.net_height),
                   Chunk(self.data, loc.start,
                         ChunkEnd(self.data, loc.start, loc.n_parallel)),
                   batchpairdist(
                     Chunk(self.data, loc.start,
                           ChunkEnd(self.data, loc.start, loc.n_parallel)),
                     loc.all_weights, self.metric, self.net_width, self.net_height)) :
       LET W     == self.net_width
           H     == self.net_height
           end   == ChunkEnd(self.data, loc.start, loc.n_parallel)
           batchdata == Chunk(self.data, loc.start, end)
           wins  == EagerSeq([i \in 1..Len(batchdata) |-> Unravel(ArgMin(dists[i]), H)])
           g     == GGpu(loc.kernel, wins, W, H, attrs["sigma"], attrs["learning_rate"])
       IN  /\ loc' = [loc EXCEPT
                  !.dists = dists,
                  !.wins = wins,
                  !.numerator = Eager([x \in 0..(W - 1) |-> Eager([y \in 0..(H - 1) |->
                      EagerSeq([f \in 1..NumFeatures(self.data) |->
                          loc.numerator[x][y][f]
                            + SumSeq([i \in 1..Len(batchdata) |->
                                         g[x][y][i] * batchdata[i][f]])])])]),
                  !.denominator = Eager([x \in 0..(W - 1) |-> Eager([y \in 0..(H - 1) |->
                      loc.denominator[x][y] + SumSeq(g[x][y])])]),
                  !.coef = Eager([x \in 0..(W - 1) |-> Eager([y \in 0..(H - 1) |->
                      EagerSeq([n \in 1..Len(self.data) |->
                          IF n > loc.start /\ n <= end
                          THEN g[x][y][n - loc.start]
                          ELSE loc.coef[x][y][n]])])]),
                  !.start = loc.start + loc.n_parallel]
           /\ pc' = IF loc.start + loc.n_parallel < Len(self.data) THEN "chunk" ELSE "update"
    /\ UNCHANGED <<self, init, cpu, attrs, call, last, file, saved, net2, ncalls, nops>>

NewOf(l) ==
    NewWeights(l.numerator, l.denominator, l.all_weights, self.net_width, self.net_height)

(* A score taken after the weight matrix has been replaced. *)
ScoreAfterReplacement(early_stop, l, new_weights) ==
    IF early_stop = "mapdiff"
    THEN MapDiff(new_weights, new_weights, self.metric, self.net_width, self.net_height)
    ELSE BmuDiff(l.dists, self.metric)

(* The score appended to the convergence trace. *)
Score(early_stop, l, new_weights) ==
    IF early_stop = "mapdiff"
    THEN MapDiff(new_weights, l.all_weights, self.metric, self.net_width, self.net_height)
    ELSE BmuDiff(l.dists, self.metric)

(* An append that records the score of an epoch twice. *)
AppendScoreTwice(convergence, score) == Append(Append(convergence, score), score)

(* self.convergence.append(score). *)
AppendScore(convergence, score) == Append(convergence, score)

(* What self.convergence[-2] - self.convergence[-1] < early_stop_tolerance *)
(* may evaluate to: the scores are means of distances, and their           *)
(* difference follows the program's to within slack.                       *)
Below(conv, tolerance, slack) ==
    LET d == conv[Len(conv) - 1] - conv[Len(conv)]
    IN  IF d < tolerance - slack THEN {TRUE}
        ELSE IF d > tolerance + slack THEN {FALSE}
        ELSE BOOLEAN

(* A stall counter that is never reset. *)
StallCounterKept(counter, n_iter, below) ==
    IF n_iter > 0 /\ below THEN counter + 1 ELSE counter

(* The stall counter after a score has been appended; below is the value  *)
(* of the comparison with the tolerance.                                   *)
StallCounter(counter, n_iter, below) ==
    IF n_iter > 0 /\ below THEN counter + 1 ELSE 0

TraceEntry(l, counter, below, new_weights) ==
    [n_iter |-> l.n_iter, counter |-> counter, below |-> below,
     weights |-> Flatten(new_weights, self.net_width, self.net_height)]

(* The end of an epoch with early stopping off. *)
BatchUpdate ==
    /\ pc = "update"
    /\ call.early_stop = "None"
    /\ LET new == NewOf(loc)
       IN  loc' = [loc EXCEPT !.all_weights = new,
                              !.n_iter = loc.n_iter + 1,
                              !.trace = Append(loc.trace,
                                               TraceEntry(loc, loc.early_stop_counter,
                                                          FALSE, new))]
    /\ pc' = "batch"
    /\ UNCHANGED <<self, init, cpu, attrs, call, last, file, saved, net2, ncalls, nops>>

(* The end of an epoch with early stopping on. *)
BatchUpdateEarlyStop ==
    /\ pc = "update"
    /\ call.early_stop \in {"mapdiff", "bmudiff"}
    /\ self.convergence_type = "list"
    /\ LET new  == NewOf(loc)
           conv == AppendScore(self.convergence, Score(call.early_stop, loc, new))
       IN  \E below \in (IF loc.n_iter > 0
                         THEN Below(conv, call.early_stop_tolerance,
                                    Slack(self, init,
                                          Flatten(new, self.net_width, self.net_height)))
                         ELSE {FALSE}) :
             LET counter == StallCounter(loc.early_stop_counter, loc.n_iter, below)
             IN  /\ self' = [self EXCEPT !.convergence = conv]
                 /\ loc' = [loc EXCEPT !.all_weights = new,
                                       !.n_iter = loc.n_iter + 1,
                                       !.early_stop_counter = counter,
                                       !.trace = Append(loc.trace,
                                                        TraceEntry(loc, counter, below, new))]
    /\ pc' = "batch"
    /\ UNCHANGED <<init, cpu, attrs, call, last, file, saved, net2, ncalls, nops>>

(* self.convergence has been rebound to an array, which has no append:     *)
(* AttributeError, before the matrix is replaced.                          *)
BatchAppendError ==
    /\ pc = "update"
    /\ call.early_stop \in {"mapdiff", "bmudiff"}
    /\ self.convergence_type = "ndarray"
    /\ pc' = "idle"
    /\ last' = [op |-> "train", err |-> "AttributeError"]
    /\ UNCHANGED <<self, init, cpu, attrs, call, loc, file, saved, net2, ncalls, nops>>

(* early_stop is neither None, 'mapdiff' nor 'bmudiff': sys.exit. *)
BatchUnknownEarlyStop ==
    /\ pc = "update"
    /\ call.early_stop \notin {"None", "mapdiff", "bmudiff"}
    /\ pc' = "idle"
    /\ last' = [op |-> "train", err |-> "SystemExit"]
    /\ UNCHANGED <<self, init, cpu, attrs, call, loc, file, saved, net2, ncalls, nops>>

---------------------------------------------------------------------------
(* save(), the loading constructor, find_bmu_ix().                         *)

(* The object is at rest and another call of an operation is explored. *)
CanOp ==
    /\ pc = "idle"
    /\ last.op # "plot_convergence"
    /\ nops < (IF ncalls = 0 THEN MaxOps ELSE MaxOpsAfterTrain)

SaveOk ==
    /\ CanOp
    /\ ~SaveFails(self)
    /\ file' = [exists |-> TRUE, rows |-> SaveRows(self)]
    /\ saved' = [loaded |-> TRUE, net_height |-> self.net_height,
                 net_width |-> self.net_width, PBC |-> self.PBC,
                 weights |-> WeightRows(self)]
    /\ last' = [op |-> "save", err |-> "ok"]
    /\ nops' = nops + 1
    /\ UNCHANGED <<self, init, cpu, attrs, pc, call, loc, net2, ncalls>>

SaveIndexError ==
    /\ CanOp
    /\ SaveFails(self)
    /\ last' = [op |-> "save", err |-> "IndexError"]
    /\ nops' = nops + 1
    /\ UNCHANGED <<self, init, cpu, attrs, pc, call, loc, file, saved, net2, ncalls>>

(* SOMNet(h, w, data, load_file=file, PBC=p): the shape, data and PBC      *)
(* arguments are free.                                                     *)
LoadShapes == {<<1, 1>>, <<MaxDim, MaxDim>>} \cup {<<self.net_height, self.net_width>>}

(* The data argument of the loading call: the data the saved network was   *)
(* made on, or a dataset of another feature count.                         *)
LoadData == {self.data, Data1}

Load ==
    /\ CanOp
    /\ file.exists
    /\ \E hw \in LoadShapes, p \in BOOLEAN, d \in LoadData :
          /\ net2' = [loaded |-> TRUE,
                      net |-> SOMNet(hw[1], hw[2], d, file, self.metric,
                                     self.topology, self.neighborhood_fun,
                                     [kind |-> init, vecs |-> None], p)]
          /\ last' = [op |-> "load", err |-> "ok", data |-> d,
                      net_height |-> hw[1], net_width |-> hw[2], PBC |-> p]
    /\ nops' = nops + 1
    /\ UNCHANGED <<self, init, cpu, attrs, pc, call, loc, file, saved, ncalls>>

(* No file was written: numpy.load raises. *)
LoadMissing ==
    /\ CanOp
    /\ ~file.exists
    /\ last' = [op |-> "load", err |-> "FileNotFoundError"]
    /\ nops' = nops + 1
    /\ UNCHANGED <<self, init, cpu, attrs, pc, call, loc, file, saved, net2, ncalls>>

FindBmu ==
    /\ CanOp
    /\ \E r \in 1..Len(self.data) :
          \E dists \in FloatRows(self, init, WeightRows(self), self.data[r],
                                 pairdist(self, self.data[r])) :
              last' = [op |-> "find_bmu_ix", err |-> "ok", vec |-> self.data[r],
                       dists |-> dists, ix |-> find_bmu_ix(dists)]
    /\ nops' = nops + 1
    /\ UNCHANGED <<self, init, cpu, attrs, pc, call, loc, file, saved, net2, ncalls>>

(* SOMNet.update_sigma(n_iter) called on the object: it reads start_sigma  *)
(* and tau, which only train() sets, and rebinds self.sigma.               *)
UpdateSigma ==
    /\ CanOp
    /\ \E n \in 0..1 :
          LET missing == ~({"start_sigma", "tau"} \subseteq DOMAIN attrs)
              zero    == ~missing /\ attrs["tau"] = 0
          IN  /\ attrs' = IF missing \/ zero THEN attrs
                          ELSE SetAttr(attrs, "sigma", update_sigma(attrs, n))
              /\ last' = [op |-> "update_sigma", n_iter |-> n,
                          err |-> IF missing THEN "AttributeError"
                                  ELSE IF zero THEN "ZeroDivisionError" ELSE "ok"]
    /\ nops' = nops + 1
    /\ UNCHANGED <<self, init, cpu, pc, call, loc, file, saved, net2, ncalls>>

(* SOMNet.update_learning_rate(n_iter) called on the object: it reads      *)
(* start_learning_rate and epochs and rebinds self.learning_rate.          *)
UpdateLearningRate ==
    /\ CanOp
    /\ \E n \in 0..1 :
          LET missing == ~({"start_learning_rate", "epochs"} \subseteq DOMAIN attrs)
              zero    == ~missing /\ attrs["epochs"] = 0
          IN  /\ attrs' = IF missing \/ zero THEN attrs
                          ELSE SetAttr(attrs, "learning_rate",
                                       update_learning_rate(attrs, n))
              /\ last' = [op |-> "update_learning_rate", n_iter |-> n,
                          err |-> IF missing THEN "AttributeError"
                                  ELSE IF zero THEN "ZeroDivisionError" ELSE "ok"]
    /\ nops' = nops + 1
    /\ UNCHANGED <<self, init, cpu, pc, call, loc, file, saved, net2, ncalls>>

(* node.update_weights(input_vec, sigma, learning_rate, bmu) called on a   *)
(* node of the map: the arguments are the caller's.                        *)
UpdateWeights ==
    /\ CanOp
    /\ \E k \in {1, Len(self.node_list)}, b \in {1, Len(self.node_list)}, r \in {1} :
          /\ self' = [self EXCEPT !.node_list[k] =
                         update_weights(self, self.node_list[k], self.data[r],
                                        StartSigma(self), 10, self.node_list[b])]
          /\ last' = [op |-> "update_weights", err |-> "ok", node |-> k, bmu |-> b,
                      input_vec |-> self.data[r], before |-> self.node_list[k].weights]
    /\ nops' = nops + 1
    /\ UNCHANGED <<init, cpu, attrs, pc, call, loc, file, saved, net2, ncalls>>

(* plot_convergence(): on a list it does nothing when the list is empty    *)
(* and rebinds self.convergence to numpy.nan_to_num of it otherwise; on    *)
(* the array an earlier call left, the comparison with [] gives False or   *)
(* raises ValueError, as the numpy at hand has it.                         *)
PlotConvergence ==
    /\ pc = "idle"
    /\ nops = 0
    /\ \/ /\ self.convergence_type = "list"
          /\ self' = IF self.convergence = << >>
                     THEN self
                     ELSE [self EXCEPT !.convergence_type = "ndarray"]
          /\ last' = [op |-> "plot_convergence", err |-> "ok"]
       \/ /\ self.convergence_type = "ndarray"
          /\ self' = self
          /\ \E e \in {"ok", "ValueError"} :
                last' = [op |-> "plot_convergence", err |-> e]
    /\ UNCHANGED <<init, cpu, attrs, pc, call, loc, file, saved, net2, ncalls, nops>>

---------------------------------------------------------------------------
(* Arguments of train().                                                   *)

LearningRates == {0, 10}

EarlyStops == {"None", "mapdiff", "bmudiff", "maxdiff"}

Tolerances == {0, 20}

BatchSizes == {0 - 1, 1}

AllTrainArgs ==
    [train_algo : {"batch", "online", "sequential"}, epochs : 0..MaxEpochs,
     start_learning_rate : LearningRates, early_stop : EarlyStops,
     early_stop_patience : 0..MaxPatience, early_stop_tolerance : Tolerances,
     batch_size : BatchSizes]

(* The train() calls explored on TrainConfigs.  Batch training reads every *)
(* argument but the learning rate's value enters numerator and denominator *)
(* alike; online training reads neither patience, tolerance nor batch size.*)
TrainArgs ==
    {a \in AllTrainArgs :
        \/ /\ a.train_algo = "batch"
           /\ a.epochs \in {0, MaxEpochs}
           /\ a.start_learning_rate = 10
           /\ a.batch_size = 0 - 1
        \/ /\ a.train_algo = "batch"
           /\ a.epochs = MaxEpochs
           /\ a.early_stop \in {"None", "mapdiff"}
           /\ a.early_stop_patience = MaxPatience
           /\ a.early_stop_tolerance = 20
        \/ /\ a.train_algo \in {"online", "sequential"}
           /\ a.epochs \in {0, MaxEpochs}
           /\ a.start_learning_rate = 10
           /\ a.early_stop \in {"None", "maxdiff"}
           /\ a.early_stop_patience = MaxPatience
           /\ a.early_stop_tolerance = 0
           /\ a.batch_size = 0 - 1}

(* The train() calls explored on every constructor call of Configs. *)
CoreArgs ==
    {a \in AllTrainArgs :
        /\ a.start_learning_rate = 10
        /\ a.early_stop_patience = 1
        /\ a.early_stop_tolerance = 20
        /\ \/ a.train_algo = "batch" /\ a.epochs = CoreEpochs
                 /\ a.early_stop \in {"None", "mapdiff", "bmudiff", "maxdiff"}
           \/ a.train_algo = "online" /\ a.epochs = 1
                 /\ a.early_stop = "None" /\ a.batch_size = 0 - 1
           \/ a.train_algo = "sequential" /\ a.epochs = 1
                 /\ a.early_stop = "None" /\ a.batch_size = 0 - 1}

Train(A) ==
    \/ TrainZeroDivision(A)
    \/ TrainUnknownAlgo(A)
    \/ TrainOnlineBegin(A)
    \/ OnlineEpoch
    \/ OnlineDone
    \/ TrainBatchBegin(A)
    \/ BatchBreak
    \/ BatchDone
    \/ BatchEpochBegin
    \/ BatchRangeError
    \/ BatchChunk
    \/ BatchUpdate
    \/ BatchUpdateEarlyStop
    \/ BatchAppendError
    \/ BatchUnknownEarlyStop

Init == InitWith(Configs)

Next ==
    \/ Train(CoreArgs \cup ShortArgs)
    \/ SaveOk
    \/ SaveIndexError
    \/ Load
    \/ LoadMissing
    \/ FindBmu
    \/ UpdateSigma
    \/ UpdateLearningRate
    \/ UpdateWeights
    \/ PlotConvergence

(* Every constructor call of Configs, a few train() calls, and the other   *)
(* operations.                                                             *)
Spec == Init /\ [][Next]_vars

(* The train() calls in depth. *)
SpecTrain ==
    InitWith(TrainConfigs) /\ [][Train(TrainArgs \cup CoreArgs \cup ShortArgs) \/ PlotConvergence]_vars

(* Grids of every shape, topology and PBC setting, and calls of            *)
(* a.get_node_distance(b) on their nodes.                                  *)
GridConfigs ==
    {c \in AllConfigs :
        /\ c.data = Data3
        /\ c.metric = "euclidean"
        /\ c.neighborhood_fun = "gaussian"
        /\ c.init = "random"}

NodeDistance ==
    /\ pc = "idle"
    /\ nops < MaxOps
    /\ \E a \in 1..Len(self.node_list), b \in 1..Len(self.node_list) :
          last' = [op |-> "get_node_distance", err |-> "ok", a |-> a, b |-> b,
                   d |-> get_node_distance(self, self.node_list[a], self.node_list[b])]
    /\ nops' = nops + 1
    /\ UNCHANGED <<self, init, cpu, attrs, pc, call, loc, file, saved, net2, ncalls>>

(* The arguments a node is constructed with directly: bounds for a random *)
(* draw, two custom vectors, a row of weights, or none of them.            *)
NodeSources ==
    {[wei_bounds |-> << ColMin(self.data), ColMax(self.data) >>,
      init_vec |-> None, wei_array |-> None],
     [wei_bounds |-> None, init_vec |-> CustomVecs(NumFeatures(self.data)),
      wei_array |-> None],
     [wei_bounds |-> << ColMin(self.data), ColMax(self.data) >>,
      init_vec |-> None, wei_array |-> self.data[1]],
     [wei_bounds |-> None, init_vec |-> None, wei_array |-> None]}

(* SOMNode(x, y, D, net_height, net_width, PBC, topology, ...) called on   *)
(* its own, for a cell of the grid.                                        *)
NodeInit ==
    /\ pc = "idle"
    /\ nops < MaxOps
    /\ \E x \in 0..(self.net_width - 1), y \in 0..(self.net_height - 1),
          s \in NodeSources, rnd \in [1..NumFeatures(self.data) -> RandomValues] :
          last' = IF SOMNodeSource(s.wei_bounds, s.init_vec, s.wei_array) = "exit"
                  THEN [op |-> "SOMNode", err |-> "SystemExit"]
                  ELSE [op |-> "SOMNode", err |-> "ok",
                        node |-> SOMNode(x, y, NumFeatures(self.data), self.net_height,
                                         self.net_width, s.wei_bounds, s.init_vec,
                                         s.wei_array, rnd)]
    /\ nops' = nops + 1
    /\ UNCHANGED <<self, init, cpu, attrs, pc, call, loc, file, saved, net2, ncalls>>

SpecGrid == InitWith(GridConfigs) /\ [][NodeDistance \/ NodeInit]_vars

---------------------------------------------------------------------------
(* Properties.                                                             *)

Nodes == 1..Len(self.node_list)

Features == 1..NumFeatures(self.data)

(* The node at grid index (x, y) is at list index x*net_height + y. *)
NodeAt(x, y) == self.node_list[x * self.net_height + y + 1]

(* A train() call has returned or raised, and nothing was called since. *)
TrainEnded == pc = "idle" /\ last.op = "train"

TrainReturned == TrainEnded /\ last.err = "ok"

(* C1: a network constructed with init='random' has every initial weight   *)
(* of every node within [min_i, max_i] of the dataset, feature by feature. *)
RandomInitWithinData ==
    (init = "random" /\ ncalls = 0 /\ nops = 0) =>
        \A k \in Nodes : \A i \in Features :
            /\ ColMin(self.data)[i] <= self.node_list[k].weights[i]
            /\ self.node_list[k].weights[i] <= ColMax(self.data)[i]

(* C1, the failing case: the 2 x 2 map on [[0.0], [10.0]], whose node      *)
(* (0, 0) starts at -10.0.                                                 *)
RandomInitBelowData ==
    /\ init = "random"
    /\ ncalls = 0
    /\ self.data = Data1
    /\ self.net_height = 2
    /\ self.net_width = 2
    /\ NodeAt(0, 0).weights = <<0 - 1000>>

(* C2: save() succeeds for every feature count, and a network constructed  *)
(* from the saved file has the saved height, width, PBC flag and the saved *)
(* weight vector at every node index, whatever the constructor was passed. *)
SaveLoadRoundTrip ==
    /\ last.op = "save" => last.err = "ok"
    /\ net2.loaded =>
          /\ net2.net.net_height = saved.net_height
          /\ net2.net.net_width = saved.net_width
          /\ net2.net.PBC = saved.PBC
          /\ Len(net2.net.node_list) = Len(saved.weights)
          /\ \A k \in 1..Len(saved.weights) :
                net2.net.node_list[k].weights = saved.weights[k]

(* C2, the failing case: save() on a network of fewer than three features. *)
SaveRaisedIndexError ==
    /\ last.op = "save"
    /\ last.err = "IndexError"
    /\ NumFeatures(self.data) < 3
    /\ ~file.exists

(* The scenario of C3: the 2 x 2 rectangular map, D = 1, dataset           *)
(* [[0.0], [10.0]], random init, gaussian kernel, batch, 5 epochs.         *)
ScenarioCall ==
    /\ self.net_height = 2
    /\ self.net_width = 2
    /\ self.topology = "rectangular"
    /\ self.data = Data1
    /\ self.neighborhood_fun = "gaussian"
    /\ init = "random"
    /\ call.train_algo = "batch"
    /\ call.epochs = 5

(* C3: in the scenario train() completes all 5 epochs without an error and *)
(* leaves the four node weights strictly between 0.0 and 10.0.             *)
ScenarioCompletes ==
    (ScenarioCall /\ TrainEnded) =>
        /\ last.err = "ok"
        /\ Len(loc.trace) = 5
        /\ \A k \in Nodes : /\ 0 < self.node_list[k].weights[1]
                            /\ self.node_list[k].weights[1] < 10 * Centi

(* C3, the failing case: the call raises ZeroDivisionError and leaves the  *)
(* initial weights.                                                        *)
ScenarioRaisedZeroDivision ==
    /\ ScenarioCall
    /\ TrainEnded
    /\ last.err = "ZeroDivisionError"
    /\ Len(loc.trace) = 0
    /\ WeightRows(self) = loc.pre.weights

(* A batch train() call with early stopping on and a positive patience is *)
(* running or was the last call.                                           *)
EarlyStopCall ==
    /\ call.train_algo = "batch"
    /\ call.early_stop \in {"mapdiff", "bmudiff"}
    /\ call.early_stop_patience >= 1

(* The score appended by the i-th epoch of the call. *)
ScoreOf(i) == self.convergence[Len(self.convergence) - Len(loc.trace) + i]

(* C4: with early stopping on, the stall counter after an epoch is one more *)
(* than before when (previous score - current score) < tolerance and zero  *)
(* otherwise (the comparison is the program's: the recorded scores decide  *)
(* it wherever their difference is not within Slack of the tolerance); the *)
(* epoch at                                                                *)
(* which it first reaches the patience is the last one executed, training  *)
(* does not stop before it while epochs remain, and the node weights after *)
(* the return are those computed by that epoch.                            *)
EarlyStopAtPatience ==
    EarlyStopCall =>
        /\ Len(loc.trace) <= Len(self.convergence)
        /\ \A i \in 1..Len(loc.trace) :
              /\ loc.trace[i].counter =
                    IF i > 1 /\ loc.trace[i].below
                    THEN loc.trace[i - 1].counter + 1
                    ELSE 0
              /\ i > 1 =>
                    /\ ScoreOf(i - 1) - ScoreOf(i)
                          < call.early_stop_tolerance - Slack(self, init, loc.trace[i].weights)
                          => loc.trace[i].below
                    /\ ScoreOf(i - 1) - ScoreOf(i)
                          > call.early_stop_tolerance + Slack(self, init, loc.trace[i].weights)
                          => ~loc.trace[i].below
        /\ \A i \in 1..(Len(loc.trace) - 1) :
              loc.trace[i].counter # call.early_stop_patience
        /\ TrainReturned =>
              /\ \/ Len(loc.trace) = attrs["epochs"]
                 \/ /\ Len(loc.trace) > 0
                    /\ loc.trace[Len(loc.trace)].counter = call.early_stop_patience
              /\ Len(loc.trace) > 0 =>
                    WeightRows(self) = loc.trace[Len(loc.trace)].weights

(* C4, the case: training stopped on the patience with epochs remaining,   *)
(* after a counter that had been reset at least once.                      *)
StoppedOnPatience ==
    /\ EarlyStopCall
    /\ TrainReturned
    /\ Len(loc.trace) < attrs["epochs"]
    /\ Len(loc.trace) > call.early_stop_patience + 1
    /\ loc.trace[Len(loc.trace)].counter = call.early_stop_patience
    /\ WeightRows(self) = loc.trace[Len(loc.trace)].weights
    /\ WeightRows(self) # loc.pre.weights

(* The exact distance from a vector to the node at list index k. *)
DistTo(vec, k) == DistExact(self.metric, vec, self.node_list[k].weights)

(* The value v, in half units, that the program holds for a distance is    *)
(* the model's exact value e or lies above it within slack.                *)
Holds(v, e, slack) ==
    /\ v \div 2 >= e
    /\ Root(self.metric, v \div 2) - Root(self.metric, e) <= slack

(* The rows of the data the last mini batch held. *)
LastChunkStart == loc.start - loc.n_parallel

(* The node at the 1-based index k is the stable argmin of the row ds the  *)
(* program computed for the distances from vec to the nodes with the       *)
(* weights rows, the model's exact distances being exact:                  *)
(*   - every value of the row is the distance to its node, within Slack,   *)
(*     and nodes to which the program computes the very same distance are  *)
(*     at the same exact distance and have the same value in the row;      *)
(*   - no node has a smaller value in the row than k, and the distance of  *)
(*     k is the least of the exact distances, within Slack;                *)
(*   - no node of lower index has the value of k in the row, nor is one a  *)
(*     twin of k.                                                          *)
StableArgmin(ds, rows, vec, exact, k) ==
    LET twins == Twins(self, init, rows, vec)
        slack == Slack(self, init, rows)
    IN  /\ k \in 1..Len(ds)
        /\ Len(ds) = Len(rows)
        /\ Len(exact) = Len(rows)
        /\ \A j \in 1..Len(ds) : Holds(ds[j], exact[j], slack)
        /\ \A i, j \in 1..Len(ds) :
              (rows = Built(self, init) /\ SameDistance(self, init, vec, i, j)) =>
                  /\ exact[i] = exact[j]
                  /\ ds[i] = ds[j]
        /\ \A j \in 1..Len(ds) : ds[k] <= ds[j]
        /\ \A j \in 1..Len(ds) :
              Root(self.metric, exact[k]) - Root(self.metric, exact[j]) <= slack
        /\ \A j \in 1..(k - 1) : ds[j] > ds[k] /\ j \notin twins[k]

NodeListKeepsGridOrder ==
    /\ Len(self.node_list) = self.net_height * self.net_width
    /\ \A x \in 0..(self.net_width - 1), y \in 0..(self.net_height - 1) :
          /\ NodeAt(x, y).x = x
          /\ NodeAt(x, y).y = y
          /\ Len(NodeAt(x, y).weights) = NumFeatures(self.data)
          /\ (pc = "batch" /\ loc.n_iter = 0) =>
                loc.all_weights[x][y] = NodeAt(x, y).weights
          /\ (TrainReturned /\ call.train_algo = "batch") =>
                NodeAt(x, y).weights = loc.all_weights[x][y]
    /\ (last.op = "load" /\ last.err = "ok") =>
          LET net == net2.net
          IN  /\ Len(net.node_list) = net.net_height * net.net_width
              /\ \A x \in 0..(net.net_width - 1), y \in 0..(net.net_height - 1) :
                    LET node == net.node_list[x * net.net_height + y + 1]
                    IN  /\ node.x = x
                        /\ node.y = y
                        /\ node.weights = file.rows[x * net.net_height + y + 2]

(* C6, the case: a second call, a batch one, on a map with more rows than  *)
(* columns has returned after at least one epoch, with weights that differ *)
(* from cell to cell.                                                      *)
BatchWroteBack ==
    /\ TrainReturned
    /\ ncalls >= 2
    /\ call.train_algo = "batch"
    /\ Len(loc.trace) > 0
    /\ self.net_height > self.net_width
    /\ self.net_width > 1
    /\ NodeAt(0, 1).weights # NodeAt(1, 0).weights
    /\ NodeAt(0, 1).weights = loc.all_weights[0][1]
    /\ WeightRows(self) # loc.pre.weights

(* Sample indices that entered the sums of grid cell (x, y) this epoch. *)
Contributing(x, y) == {n \in 1..Len(self.data) : loc.coef[x][y][n] # 0}

(* The new weight of grid cell (x, y) is a convex combination of the       *)
(* contributing inputs: non-negative coefficients that sum to the          *)
(* denominator, the numerator their weighted sum, and the quotient within  *)
(* the least and the greatest contributing input, feature by feature.      *)
InHull(x, y) ==
    LET c   == loc.coef[x][y]
        new == NewOf(loc)[x][y]
    IN  /\ \A n \in 1..Len(self.data) : c[n] >= 0
        /\ loc.denominator[x][y] = SumSeq(c)
        /\ \A f \in Features :
              /\ loc.numerator[x][y][f] =
                    SumSeq([n \in 1..Len(self.data) |-> c[n] * self.data[n][f]])
              /\ \E n \in Contributing(x, y) : self.data[n][f] <= new[f]
              /\ \E n \in Contributing(x, y) : self.data[n][f] >= new[f]

EpochInHull ==
    \A x \in 0..(self.net_width - 1), y \in 0..(self.net_height - 1) :
        loc.denominator[x][y] # 0 => InHull(x, y)

(* C7 as stated: after a batch epoch every node with a nonzero denominator *)
(* has its new weight within the convex hull of the contributing inputs,   *)
(* for the gaussian, the bubble and the mexican hat kernel.                *)
NewWeightInHullAnyKernel ==
    pc = "update" => EpochInHull

(* C7, amended: the same for the gaussian and the bubble kernel, whose     *)
(* values are never negative.                                              *)
NewWeightInHullNonNegativeKernel ==
    (pc = "update" /\ loc.kernel \in {"gaussian", "bubble"}) => EpochInHull

(* C7, the case: an epoch under the gaussian kernel in which a node        *)
(* averaged several inputs into a weight that is none of them.             *)
SeveralInputsAveraged ==
    /\ pc = "update"
    /\ loc.kernel = "gaussian"
    /\ \E x \in 0..(self.net_width - 1), y \in 0..(self.net_height - 1) :
          /\ loc.denominator[x][y] # 0
          /\ Cardinality(Contributing(x, y)) >= 2
          /\ InHull(x, y)
          /\ NewOf(loc)[x][y] \notin {self.data[n] : n \in 1..Len(self.data)}

(* C8: a train() call whose early_stop is neither None, 'mapdiff' nor      *)
(* 'bmudiff' ends in a fatal error, for either algorithm and any number of *)
(* epochs.                                                                 *)
UnknownEarlyStopIsFatal ==
    (TrainEnded /\ call.train_algo \in {"online", "batch"}
                /\ call.early_stop \notin {"None", "mapdiff", "bmudiff"}) =>
        last.err # "ok"

(* C8, the failing case: an online call with an unknown early_stop ran all *)
(* its epochs, changed the weights and returned.                           *)
OnlineIgnoredEarlyStop ==
    /\ TrainReturned
    /\ call.train_algo = "online"
    /\ call.early_stop = "maxdiff"
    /\ call.epochs > 0
    /\ loc.n_iter = call.epochs
    /\ WeightRows(self) # loc.pre.weights

(* C9: a train() call with a train_algo other than 'online' or 'batch'     *)
(* ends in a fatal error and leaves the node weights, the convergence      *)
(* trace and the scalar training state as they were before the call.       *)
UnknownAlgoFailsFast ==
    (TrainEnded /\ call.train_algo \notin {"online", "batch"}) =>
        /\ last.err \in {"SystemExit", "ZeroDivisionError"}
        /\ WeightRows(self) = loc.pre.weights
        /\ self.convergence = loc.pre.convergence
        /\ attrs = loc.pre.attrs

(* C9, the failing case: the call ended in sys.exit after it had set       *)
(* start_sigma, start_learning_rate, epochs and tau on the object.         *)
UnknownAlgoSetAttributes ==
    /\ TrainEnded
    /\ call.train_algo = "sequential"
    /\ last.err = "SystemExit"
    /\ loc.pre.attrs = NoAttrs
    /\ DOMAIN attrs = {"start_sigma", "start_learning_rate", "epochs", "tau"}
    /\ attrs["epochs"] = call.epochs

(* C10: no network exists with PBC on and the rectangular topology: the    *)
(* constructor rejects the combination.                                    *)
PbcRectangularRejected ==
    ~(self.PBC /\ self.topology = "rectangular")

(* C10, the failing case: such a network exists, and get_node_distance     *)
(* returns the plain distance between the first and the last row of a      *)
(* column, which is longer than the way around.                            *)
PbcRectangularPlainDistance ==
    /\ self.PBC
    /\ self.topology = "rectangular"
    /\ self.net_height = 3
    /\ get_node_distance(self, NodeAt(0, 0), NodeAt(0, 2)) = 4 * 2 * 2
    /\ get_node_distance(self, NodeAt(0, 0), NodeAt(0, 2))
          = PlainDist4("rectangular", NodeAt(0, 0), NodeAt(0, 2))

(* C11: constructing a network from a file whose rows have another length *)
(* than the rows of the data passed to the constructor fails.              *)
LoadMismatchIsFatal ==
    (last.op = "load" /\ file.exists
        /\ NumFeatures(last.data) # Len(file.rows[1])) => last.err # "ok"

(* C11, the failing case: the constructor returned a network whose data    *)
(* has one feature and whose nodes carry the three weights of the file.    *)
LoadedOtherFeatureCount ==
    /\ last.op = "load"
    /\ last.err = "ok"
    /\ net2.loaded
    /\ NumFeatures(net2.net.data) = 1
    /\ Len(file.rows[1]) = 3
    /\ Len(net2.net.node_list) = net2.net.net_height * net2.net.net_width
    /\ \A k \in 1..Len(net2.net.node_list) : Len(net2.net.node_list[k].weights) = 3

(* C12: batch training on a network whose neighborhood_fun is not the name *)
(* of a kernel runs no epoch: no mini batch is ever accumulated with a     *)
(* kernel put in the place of the unknown one.                             *)
UnknownKernelIsReported ==
    (call.train_algo = "batch"
        /\ self.neighborhood_fun \notin {"gaussian", "bubble", "mexican"}) =>
        /\ pc \notin {"chunk", "update"}
        /\ Len(loc.trace) = 0

(* C12, the failing case: under neighborhood_fun = "linear" a mini batch   *)
(* was accumulated with the gaussian kernel, and the call returned with    *)
(* changed weights.                                                        *)
UnknownKernelRanGaussian ==
    /\ self.neighborhood_fun = "linear"
    /\ call.train_algo = "batch"
    /\ loc.kernel = "gaussian"
    /\ TrainReturned
    /\ Len(loc.trace) = attrs["epochs"]
    /\ Len(loc.trace) > 0
    /\ WeightRows(self) # loc.pre.weights

(* The convergence trace begins with the entries of the sequence pre. *)
ExtendsTrace(pre) ==
    /\ Len(self.convergence) >= Len(pre)
    /\ \A i \in 1..Len(pre) : self.convergence[i] = pre[i]

(* C13: the convergence trace is empty after construction; a batch call    *)
(* with early stopping on has appended one score for every epoch it has    *)
(* executed and has left the entries it found as they were, on a first and *)
(* on a further call; a call with early_stop = None, or an online call,    *)
(* leaves the trace as it found it.                                        *)
ConvergenceAppendOnly ==
    /\ ncalls = 0 => self.convergence = << >>
    /\ net2.loaded => net2.net.convergence = << >>
    /\ ncalls > 0 =>
          /\ ExtendsTrace(loc.pre.convergence)
          /\ IF call.train_algo = "batch" /\ call.early_stop \in {"mapdiff", "bmudiff"}
             THEN /\ Len(self.convergence) = Len(loc.pre.convergence) + loc.n_iter
                  /\ Len(loc.trace) = loc.n_iter
             ELSE (call.train_algo = "online" \/ call.early_stop = "None") =>
                     self.convergence = loc.pre.convergence

(* C13, the case: a second batch call with early stopping on has returned  *)
(* after several epochs, on a trace the first call had left entries in.    *)
SecondCallAppended ==
    /\ ncalls = 2
    /\ TrainReturned
    /\ call.train_algo = "batch"
    /\ call.early_stop = "mapdiff"
    /\ loc.n_iter >= 2
    /\ Len(loc.pre.convergence) >= 2
    /\ ExtendsTrace(loc.pre.convergence)
    /\ Len(self.convergence) = Len(loc.pre.convergence) + loc.n_iter

(* The nodes of the last a.get_node_distance(b) call. *)
NodeA == self.node_list[last.a]

NodeB == self.node_list[last.b]

(* C14: under either topology, with PBC on or off, a.get_node_distance(b)  *)
(* equals b.get_node_distance(a), and a.get_node_distance(a) is 0.         *)
NodeDistanceSymmetric ==
    last.op = "get_node_distance" =>
        /\ last.d = get_node_distance(self, NodeB, NodeA)
        /\ last.a = last.b => last.d = 0
        /\ last.d >= 0

(* C14, the case: on a hexagonal grid with PBC, two nodes whose distance   *)
(* is the length of a diagonal wrap, the same in both directions.          *)
DiagonalWrapBothWays ==
    /\ last.op = "get_node_distance"
    /\ self.PBC
    /\ self.topology = "hexagonal"
    /\ last.a # last.b
    /\ NodeA.x # NodeB.x
    /\ NodeA.y # NodeB.y
    /\ last.d < PlainDist4("hexagonal", NodeA, NodeB)
    /\ last.d \notin {Sq4("hexagonal", PosX2("hexagonal", NodeA) - PosX2("hexagonal", NodeB) + s * 2 * self.net_width,
                          NodeA.y - NodeB.y) : s \in {0 - 1, 1}}
    /\ last.d = get_node_distance(self, NodeB, NodeA)

(* C15: on a hexagonal grid with PBC the distance returned is at most the  *)
(* plain Euclidean distance between the two positions.                     *)
WrapNeverLonger ==
    (last.op = "get_node_distance" /\ self.PBC /\ self.topology = "hexagonal") =>
        last.d <= PlainDist4("hexagonal", NodeA, NodeB)

(* C15, the case: two nodes at the ends of a row of a hexagonal grid with  *)
(* PBC, one step apart around the grid and width - 1 steps apart across.   *)
RowEndsAreNeighbours ==
    /\ last.op = "get_node_distance"
    /\ self.PBC
    /\ self.topology = "hexagonal"
    /\ self.net_width = 3
    /\ NodeA.y = NodeB.y
    /\ NodeA.x = 0
    /\ NodeB.x = 2
    /\ PlainDist4("hexagonal", NodeA, NodeB) = 4 * 2 * 2
    /\ last.d = 4 * 1 * 1

(* A step that starts epoch loc.n_iter of the running call: it sets sigma  *)
(* and learning_rate for the epoch.                                        *)
EpochStarts ==
    \/ pc = "batch" /\ pc' = "chunk"
    \/ pc = "online" /\ pc' = "online" /\ loc'.n_iter = loc.n_iter + 1

(* C16: within a train() call with start_learning_rate > 0, learning_rate  *)
(* is start_learning_rate at epoch 0 and at every later epoch at most what *)
(* it was at the epoch before.                                             *)
LearningRateDecays ==
    [][(EpochStarts /\ attrs'["start_learning_rate"] > 0) =>
          IF loc.n_iter = 0
          THEN attrs'["learning_rate"] = attrs'["start_learning_rate"]
          ELSE attrs'["learning_rate"] <= attrs["learning_rate"]]_vars

(* C16, the failing case: at epoch 1 of 5 the learning rate is 0.012,      *)
(* above the start_learning_rate of 0.010.                                 *)
LearningRateGrew ==
    /\ pc = "chunk"
    /\ loc.n_iter = 1
    /\ attrs["epochs"] = 5
    /\ attrs["start_learning_rate"] = 10
    /\ attrs["learning_rate"] = 12

(* C17: a train() call with a positive number of epochs gets a tau, and    *)
(* within the call sigma is start_sigma at epoch 0 and at every later      *)
(* epoch at most what it was at the epoch before.                          *)
SigmaDecays ==
    [][/\ (ncalls' = ncalls + 1 /\ call'.epochs > 0) =>
             /\ last'.err # "ZeroDivisionError"
             /\ "tau" \in DOMAIN attrs'
       /\ EpochStarts =>
             IF loc.n_iter = 0
             THEN attrs'["sigma"] = attrs'["start_sigma"]
             ELSE attrs'["sigma"] <= attrs["sigma"]]_vars

(* C17, a failing case: on the map of a single node start_sigma is 0.5,    *)
(* tau is negative, and sigma at epoch 1 is above start_sigma.             *)
SigmaGrew ==
    /\ self.net_height = 1
    /\ self.net_width = 1
    /\ pc \in {"chunk", "online"}
    /\ loc.n_iter >= 1
    /\ attrs["start_sigma"] = Milli \div 2
    /\ attrs["tau"] < 0
    /\ attrs["sigma"] > attrs["start_sigma"]

(* An online call is running or has returned. *)
OnlineCall ==
    /\ call.train_algo = "online"
    /\ pc = "online" \/ TrainReturned

(* C18: in online training the queue built before the first epoch holds a  *)
(* sample index in 0..N-1 for every epoch still to run, so no pop finds it *)
(* empty, and no index is drawn twice within a block of N consecutive      *)
(* epochs counted from epoch 0.                                            *)
OnlineQueueSupplies ==
    OnlineCall =>
        LET N == Len(self.data)
        IN  /\ Len(loc.datapoints) >= attrs["epochs"] - loc.n_iter
            /\ Len(loc.drawn) = loc.n_iter
            /\ TrainReturned => loc.n_iter = attrs["epochs"]
            /\ \A i \in 1..Len(loc.drawn) : loc.drawn[i] \in 0..(N - 1)
            /\ \A i \in 1..Len(loc.datapoints) : loc.datapoints[i] \in 0..(N - 1)
            /\ \A i, j \in 1..Len(loc.drawn) :
                  (i < j /\ (i - 1) \div N = (j - 1) \div N) =>
                      loc.drawn[i] # loc.drawn[j]

(* C18, the case: an online call of more epochs than samples has returned, *)
(* and an index drawn in the first block was drawn again in the second.    *)
DrawnAgainInNextBlock ==
    /\ OnlineCall
    /\ TrainReturned
    /\ attrs["epochs"] > Len(self.data)
    /\ Len(loc.drawn) = attrs["epochs"]
    /\ loc.drawn[1] = loc.drawn[Len(self.data) + 1]
    /\ loc.drawn[2] # loc.drawn[Len(self.data) + 2]

(* The rows of the weight matrix as epoch i of the running call left it    *)
(* (i = 0: as the call found the node weights).                            *)
RowsAfterEpoch(i) == IF i = 0 THEN loc.pre.weights ELSE loc.trace[i].weights

MatrixAfterEpoch(i) == Reshape(RowsAfterEpoch(i), self.net_width, self.net_height)

(* C19: throughout epoch n of a batch call the weight matrix is the one    *)
(* epoch n-1 left, and the BMU search of every mini batch reads it; the    *)
(* matrix is replaced only once the last mini batch has been accumulated,  *)
(* the mapdiff score of an epoch is taken between the matrix before and    *)
(* the matrix after it, epochs run in order, and the node weights are not  *)
(* touched while the loop runs.                                            *)
EpochReadsPreviousMatrix ==
    (call.train_algo = "batch" /\ pc \in {"batch", "chunk", "update"}) =>
        /\ Len(loc.trace) = loc.n_iter
        /\ \A i \in 1..Len(loc.trace) : loc.trace[i].n_iter = i - 1
        /\ Flatten(loc.all_weights, self.net_width, self.net_height)
              = RowsAfterEpoch(loc.n_iter)
        /\ WeightRows(self) = loc.pre.weights
        /\ pc = "update" => loc.start >= Len(self.data)
        /\ (pc \in {"chunk", "update"} /\ loc.start > 0) =>
              LET exact == batchpairdist(
                    Chunk(self.data, LastChunkStart,
                          ChunkEnd(self.data, LastChunkStart, loc.n_parallel)),
                    MatrixAfterEpoch(loc.n_iter), self.metric,
                    self.net_width, self.net_height)
              IN  /\ Len(loc.dists) = Len(exact)
                  /\ Len(loc.wins) = Len(exact)
                  /\ \A i \in 1..Len(exact) :
                        /\ Len(loc.dists[i]) = Len(exact[i])
                        /\ \A k \in 1..Len(exact[i]) :
                              Holds(loc.dists[i][k], exact[i][k],
                                    Slack(self, init, RowsAfterEpoch(loc.n_iter)))
                        /\ loc.wins[i] = Unravel(ArgMin(loc.dists[i]), self.net_height)
        /\ call.early_stop = "mapdiff" =>
              \A i \in 1..Len(loc.trace) :
                  ScoreOf(i) = MapDiff(MatrixAfterEpoch(i), MatrixAfterEpoch(i - 1),
                                       self.metric, self.net_width, self.net_height)

(* C19, the case: in the middle of a later epoch of a call that works in   *)
(* mini batches of one sample, sums have been accumulated, the matrix is   *)
(* the one the epoch before left, and the nodes still hold the weights     *)
(* the call found.                                                         *)
MidEpochMatrixUnchanged ==
    /\ call.train_algo = "batch"
    /\ pc = "chunk"
    /\ loc.n_parallel = 1
    /\ loc.n_iter >= 1
    /\ loc.start > 0
    /\ loc.start < Len(self.data)
    /\ \E x \in 0..(self.net_width - 1), y \in 0..(self.net_height - 1) :
          loc.denominator[x][y] # 0
    /\ Flatten(loc.all_weights, self.net_width, self.net_height)
          = RowsAfterEpoch(loc.n_iter)
    /\ RowsAfterEpoch(loc.n_iter) # loc.pre.weights
    /\ WeightRows(self) = loc.pre.weights

(* q is the quotient num/den rounded to the nearest unit, den # 0. *)
IsQuotient(q, num, den) == 2 * Abs(q * den - num) <= Abs(den)

(* A batch call has finished an epoch and not yet started the next: the    *)
(* sums are those of the epoch, the matrix is the one it produced.         *)
EpochFinished ==
    /\ call.train_algo = "batch"
    /\ pc = "batch"
    /\ loc.n_iter >= 1

(* C20: after a batch epoch a node whose denominator is zero has the       *)
(* weight vector it had before the epoch and a node whose denominator is   *)
(* not zero has numerator/denominator; an epoch whose denominators are all *)
(* zero leaves the matrix as it was, and the call goes on without error.   *)
ZeroDenominatorKeepsWeights ==
    EpochFinished =>
        /\ last.err = "running"
        /\ \A x \in 0..(self.net_width - 1), y \in 0..(self.net_height - 1) :
              IF loc.denominator[x][y] = 0
              THEN loc.all_weights[x][y] = MatrixAfterEpoch(loc.n_iter - 1)[x][y]
              ELSE \A f \in Features :
                      IsQuotient(loc.all_weights[x][y][f], loc.numerator[x][y][f],
                                 loc.denominator[x][y])
        /\ (\A x \in 0..(self.net_width - 1), y \in 0..(self.net_height - 1) :
               loc.denominator[x][y] = 0) =>
              loc.all_weights = MatrixAfterEpoch(loc.n_iter - 1)

(* C20, the case: an epoch under the bubble kernel after which one node    *)
(* has kept its weights, on a zero denominator, and another has moved.     *)
SomeKeptSomeMoved ==
    /\ EpochFinished
    /\ loc.kernel = "bubble"
    /\ \E x \in 0..(self.net_width - 1), y \in 0..(self.net_height - 1) :
          /\ loc.denominator[x][y] = 0
          /\ loc.all_weights[x][y] = MatrixAfterEpoch(loc.n_iter - 1)[x][y]
    /\ \E x \in 0..(self.net_width - 1), y \in 0..(self.net_height - 1) :
          /\ loc.denominator[x][y] # 0
          /\ loc.all_weights[x][y] # MatrixAfterEpoch(loc.n_iter - 1)[x][y]

(* C21: a batch call with early_stop = None that gets past the prelude, on *)
(* a machine that tells its number of cores, returns after exactly         *)
(* `epochs` epochs, whatever early_stop_patience and early_stop_tolerance   *)
(* are.                                                                    *)
NoEarlyStopRunsAllEpochs ==
    (TrainEnded /\ call.train_algo = "batch" /\ call.early_stop = "None"
                /\ last.err \notin {"ZeroDivisionError", "ValueError"}) =>
        /\ last.err = "ok"
        /\ loc.n_iter = attrs["epochs"]
        /\ Len(loc.trace) = attrs["epochs"]
        /\ attrs["epochs"] = Epochs(self, call.epochs)

(* C21, the failing case: with early_stop = None and early_stop_patience   *)
(* = 0 a call of 5 epochs returned without running one, the weights as it  *)
(* found them.                                                             *)
PatienceZeroRanNoEpoch ==
    /\ TrainReturned
    /\ call.train_algo = "batch"
    /\ call.early_stop = "None"
    /\ call.early_stop_patience = 0
    /\ attrs["epochs"] = 5
    /\ loc.n_iter = 0
    /\ Len(loc.trace) = 0
    /\ WeightRows(self) = loc.pre.weights

(* An epoch that took all samples in one mini batch has been accumulated. *)
WholeEpochAccumulated ==
    /\ call.train_algo = "batch"
    /\ pc = "update"
    /\ Len(loc.wins) = Len(self.data)

(* The matrix the running epoch would produce from the matrix it started   *)
(* on had the call been given start_learning_rate = s: the best matching   *)
(* units of the epoch (the distances do not involve the learning rate),    *)
(* kernel values times the learning rate of the epoch, sums, quotient.     *)
EpochResultUnder(s) ==
    LET W     == self.net_width
        H     == self.net_height
        lr    == update_learning_rate([attrs EXCEPT !["start_learning_rate"] = s],
                                      loc.n_iter)
        g     == GGpu(loc.kernel, loc.wins, W, H, attrs["sigma"], lr)
        num   == Eager([x \in 0..(W - 1) |-> Eager([y \in 0..(H - 1) |->
                    EagerSeq([f \in 1..NumFeatures(self.data) |->
                        SumSeq([i \in 1..Len(self.data) |->
                                   g[x][y][i] * self.data[i][f]])])])])
        den   == Eager([x \in 0..(W - 1) |-> Eager([y \in 0..(H - 1) |->
                    SumSeq(g[x][y])])])
    IN  NewWeights(num, den, loc.all_weights, W, H)

(* The values of start_learning_rate the calls are compared under. *)
ComparedRates == {0, 10, 20}

(* C22: two batch calls that differ only in start_learning_rate have the   *)
(* same node weights after every epoch.  Two such calls enter an epoch     *)
(* with the same matrix as long as the epochs before gave them the same    *)
(* one, so they agree after every epoch exactly when no epoch, started on  *)
(* one matrix, ends on another under another start_learning_rate.          *)
LearningRateIrrelevant ==
    WholeEpochAccumulated =>
        \A s \in ComparedRates : EpochResultUnder(s) = NewOf(loc)

(* C22, the failing case: an epoch of a call with start_learning_rate =    *)
(* 0.01 moves the nodes, and the same epoch on the same matrix with        *)
(* start_learning_rate = 0 leaves every node where it was.                 *)
ZeroRateLeavesWeights ==
    /\ WholeEpochAccumulated
    /\ call.start_learning_rate = 10
    /\ EpochResultUnder(10) = NewOf(loc)
    /\ EpochResultUnder(20) = NewOf(loc)
    /\ NewOf(loc) # loc.all_weights
    /\ EpochResultUnder(0) = loc.all_weights

(* C23: with early_stop = "mapdiff" the score appended for an epoch that   *)
(* left every node's weight vector as it was is 0, whether or not the      *)
(* nodes hold the same vector as one another.                              *)
UnchangedEpochScoresZero ==
    (call.train_algo = "batch" /\ call.early_stop = "mapdiff"
        /\ pc \in {"batch", "chunk", "update"}) =>
        \A i \in 1..Len(loc.trace) :
            RowsAfterEpoch(i) = RowsAfterEpoch(i - 1) => ScoreOf(i) = 0

(* C23, the case: an epoch of a mapdiff call has left every node where it  *)
(* was, two nodes hold different weight vectors, and the score appended    *)
(* for that epoch is positive.                                             *)
UnchangedEpochScoredPositive ==
    /\ call.train_algo = "batch"
    /\ call.early_stop = "mapdiff"
    /\ pc \in {"batch", "chunk", "update"}
    /\ \E i \in 1..Len(loc.trace) :
          /\ RowsAfterEpoch(i) = RowsAfterEpoch(i - 1)
          /\ \E a, b \in 1..Len(RowsAfterEpoch(i)) :
                RowsAfterEpoch(i)[a] # RowsAfterEpoch(i)[b]
          /\ ScoreOf(i) > 0

===========================================================================
